---- MODULE Spec2Model ----
(***************************************************************************)
(* Model of the Essbase MCP tools of kenual/EPM:                           *)
(*   src/epm/essbase.py  search_members (the member resolver), connect     *)
(*   src/epm/mdx.py      member_range_MDX_expression, set_MDX_expression   *)
(*                                                                         *)
(* A Python dict is a function whose DOMAIN is the set of keys present, so *)
(* a missing key is a smaller DOMAIN and the empty dict is falsy.  Python  *)
(* strings are TLA+ strings; None is the record None.  A call ends either  *)
(* by returning (pc = "done") or by an exception leaving it                *)
(* (pc = "raised", exc names the exception type).                          *)
(***************************************************************************)
EXTENDS Integers, Sequences, FiniteSets, TLC

VARIABLES
    tool,          \* the tool being called: "none" before any call
    pc,            \* "idle" | "loop" | "await" | "done" | "raised"
    entity_names,  \* search_members: the argument entity_names
    idx,           \* search_members: number of names the for loop has taken
    entity_name,   \* search_members: the loop variable
    requests,      \* the keywords of the HTTP GETs issued so far, in order
    response,      \* search_members: the local `response` (last one received)
    item,          \* search_members: the local `item` (last candidate selected)
    results,       \* search_members: the local list `results`
    mdx_arg,       \* the argument of an MDX tool call
    profile,       \* connect: the argument profile
    outcome,       \* what the call returned or raised; Pending before that
    exc            \* the exception type that left the call, "" if none

vars == <<tool, pc, entity_names, idx, entity_name, requests, response, item,
          results, mdx_arg, profile, outcome, exc>>

\* ---------------------------------------------------------------- bounds
MaxNames == 2      \* longest entity_names list
MaxItems == 2      \* longest `items` list of a response
MaxMembers == 3    \* longest list of names in a Set

\* ---------------------------------------------------------------- values
None == [type |-> "NoneType"]
Pending == [kind |-> "pending"]
NoResponse == [status_code |-> 0]
NoItem == [type |-> "unbound"]

Return(v) == [kind |-> "return", value |-> v]
Raise(e) == [kind |-> "raise", exc |-> e]

\* dict.get(key, default)
Get(d, k, default) == IF k \in DOMAIN d THEN d[k] ELSE default

\* Names a caller may ask for; the two differ in case only.
NameVals == {"Jan", "jan"}

\* The keys an outline-search hit may carry and the values each may take.
CandidateKeys == {"name", "uniqueName", "dimensionName"}
KeyVals(k) ==
    CASE k = "name" -> {"Jan"}
      [] k = "uniqueName" -> {"Jan", "jan"}
      [] k = "dimensionName" -> {"Year"}

\* The dicts a hit may be, the empty dict included.  dimensionName is varied
\* only on hits that carry uniqueName: the selection never reads it, and a hit
\* without uniqueName never becomes a Member.
Candidates ==
    UNION { {f \in [S -> {"Jan", "jan", "Year"}] : \A k \in S : f[k] \in KeyVals(k)}
            : S \in {T \in SUBSET CandidateKeys :
                       "dimensionName" \in T => "uniqueName" \in T} }

SeqsUpTo(S, n) == UNION { [1..m -> S] : m \in 0..n }

ItemLists == SeqsUpTo(Candidates, MaxItems)

\* What `await client.get(...)` can hand back: a 200 whose JSON body has an
\* `items` list or lacks the key, a 200 whose body is no JSON, or a non-200
\* (whose body, if any, is never read).
Responses ==
    { [status_code |-> 200, json |-> [items |-> its]] : its \in ItemLists }
    \cup { [status_code |-> 200, json |-> <<>>] }
    \cup { [status_code |-> 200] }
    \cup { [status_code |-> s, json |-> [items |-> its]] :
             s \in {401, 500}, its \in SeqsUpTo(Candidates, 1) }

\* ------------------------------------------------- search_members, pure part

\* next((itm for itm in items if itm.get(key) == entity_name), None); a missing
\* key gives None, which equals no string.
RECURSIVE FirstWhere(_, _, _, _)
FirstWhere(items, key, entity, i) ==
    IF i > Len(items) THEN None
    ELSE IF key \in DOMAIN items[i] /\ items[i][key] = entity THEN items[i]
    ELSE FirstWhere(items, key, entity, i + 1)

\* Python truthiness of what `item` can hold: None and {} are falsy.
Truthy(d) == d # None /\ DOMAIN d # {}

\* Mutants of SelectItem: a lone candidate must match; name before uniqueName;
\* the last candidate as the fallback.
SelectItem_LoneMustMatch(items, entity) ==
    LET byUnique == FirstWhere(items, "uniqueName", entity, 1)
        byName   == FirstWhere(items, "name", entity, 1)
    IN  IF Truthy(byUnique) THEN byUnique
        ELSE IF Truthy(byName) THEN byName
        ELSE IF Len(items) = 1 THEN None
        ELSE items[1]

SelectItem_NameFirst(items, entity) ==
    IF Len(items) = 1 THEN items[1]
    ELSE LET byUnique == FirstWhere(items, "uniqueName", entity, 1)
             byName   == FirstWhere(items, "name", entity, 1)
         IN  IF Truthy(byName) THEN byName
             ELSE IF Truthy(byUnique) THEN byUnique
             ELSE items[1]

SelectItem_LastFallback(items, entity) ==
    IF Len(items) = 1 THEN items[1]
    ELSE LET byUnique == FirstWhere(items, "uniqueName", entity, 1)
             byName   == FirstWhere(items, "name", entity, 1)
         IN  IF Truthy(byUnique) THEN byUnique
             ELSE IF Truthy(byName) THEN byName
             ELSE items[Len(items)]

\* lines 200-207: the candidate chosen from a non-empty list
SelectItem(items, entity) ==
    IF Len(items) = 1 THEN items[1]
    ELSE LET byUnique == FirstWhere(items, "uniqueName", entity, 1)
             byName   == FirstWhere(items, "name", entity, 1)
         IN  IF Truthy(byUnique) THEN byUnique
             ELSE IF Truthy(byName) THEN byName
             ELSE items[1]

\* Mutant of MemberOf: a missing dimensionName defaults to the empty string.
MemberOf_DimensionDefaultsEmpty(it) ==
    [dimension   |-> Get(it, "dimensionName", ""),
     name        |-> Get(it, "name", ""),
     unique_name |-> it["uniqueName"]]

\* lines 209-214: Member(...) built from the chosen candidate; item['uniqueName']
\* raises KeyError when the key is missing.
MemberOf(it) ==
    LET member_name == Get(it, "name", "")
    IN  [dimension   |-> Get(it, "dimensionName", member_name),
         name        |-> member_name,
         unique_name |-> it["uniqueName"]]

\* data.get('items', [])
ItemsOf(data) == Get(data, "items", <<>>)

\* line 191: response.status_code != 200
IsFailure(resp) == resp.status_code # 200

NoCandidates_AtMostOne(items) == Len(items) <= 1

\* line 196: len(items) == 0
NoCandidates(items) == Len(items) = 0

\* -------------------------------------------------------- MDX, pure part

\* Python values the MDX tools are handed, tagged with their runtime type.
PyStr(s) == [type |-> "str", val |-> s]
PyList(l) == [type |-> "list", val |-> l]
PyDict(d) == [type |-> "dict", val |-> d]
SetFunction(f) == [type |-> "SetFunction", function_name |-> f]

\* Classes declared as TypedDict; isinstance() against one raises TypeError
\* ("TypedDict does not support instance and class checks").
TypedDictClasses == {"Member", "MemberRange", "Set"}

\* v[key] for a Python value: a str cannot be indexed by a str, a dict raises
\* KeyError on a missing key.
Subscript(v, key) ==
    IF v.type = "str" THEN Raise("TypeError")
    ELSE IF key \in DOMAIN v.val THEN Return(v.val[key])
    ELSE Raise("KeyError")

\* sep.join(list)
RECURSIVE Join(_, _)
Join(l, sep) ==
    IF Len(l) = 0 THEN ""
    ELSE IF Len(l) = 1 THEN l[1]
    ELSE l[1] \o sep \o Join(Tail(l), sep)

\* Mutant of member_range_MDX_expression: the endpoints' name is rendered.
member_range_MDX_expression_ByName(member_range) ==
    LET s == Subscript(member_range.val["start_member_name"], "name")
        e == Subscript(member_range.val["end_member_name"], "name")
    IN  IF s.kind = "raise" THEN s
        ELSE IF e.kind = "raise" THEN e
        ELSE Return("MemberRange(" \o s.value \o ", " \o e.value \o ")")

\* mdx.py line 30: the f-string evaluates the start endpoint, then the end one.
member_range_MDX_expression(member_range) ==
    LET s == Subscript(member_range.val["start_member_name"], "unique_name")
        e == Subscript(member_range.val["end_member_name"], "unique_name")
    IN  IF s.kind = "raise" THEN s
        ELSE IF e.kind = "raise" THEN e
        ELSE Return("MemberRange(" \o s.value \o ", " \o e.value \o ")")

\* mdx.py lines 43-50.  The first test is isinstance(members, MemberRange).
set_MDX_expression(set_) ==
    LET members == set_["members"]
    IN  IF "MemberRange" \in TypedDictClasses THEN Raise("TypeError")
        ELSE IF members.type = "MemberRange" THEN member_range_MDX_expression(members)
        ELSE IF members.type = "list" THEN Return("{" \o Join(members.val, ", ") \o "}")
        ELSE IF members.type = "SetFunction" THEN Return(members.function_name \o "()")
        ELSE Raise("ValueError")

\* Inputs of the MDX tools.
UniqueNames == {"[Jan]", "[Dec]", "a, (b"}
Endpoints ==
    { PyDict([dimension |-> "Year", name |-> "Jan", unique_name |-> u]) : u \in UniqueNames }
    \cup { PyDict([dimension |-> "Year", name |-> "Jan"]) }
    \cup { PyStr(n) : n \in {"Jan", "Dec"} }
MemberRanges ==
    { PyDict([start_member_name |-> s, end_member_name |-> e]) : s \in Endpoints, e \in Endpoints }
MemberNames == {"A", "B", "C"}
FunctionNames == {"Children", "Descendants", ""}
Sets ==
    { [members |-> PyList(l)] : l \in SeqsUpTo(MemberNames, MaxMembers) }
    \cup { [members |-> SetFunction(f)] : f \in FunctionNames }
    \cup { [members |-> r] : r \in MemberRanges }
    \cup { [members |-> None] }

\* ---------------------------------------------------- connect, pure part

\* str.startswith(prefix), as an exact comparison (mutant)
StartsWith_Equals(s, prefix) == s = prefix

\* str.startswith(prefix)
StartsWith(s, prefix) ==
    Len(s) >= Len(prefix) /\ SubSeq(s, 1, Len(prefix)) = prefix

\* The urls a profile may carry.
Urls == {"http://localhost", "https://Essbase.example.com:9000/essbase/jet",
         "http://localhost:0", "localhost", ""}

\* urllib.parse.urlparse on those urls: scheme, hostname (lower-cased) and
\* port; the key port is missing where urlparse gives None.
UrlParse(url) ==
    CASE url = "http://localhost" -> [scheme |-> "http", hostname |-> "localhost"]
      [] url = "https://Essbase.example.com:9000/essbase/jet" ->
             [scheme |-> "https", hostname |-> "essbase.example.com", port |-> 9000]
      [] url = "http://localhost:0" ->
             [scheme |-> "http", hostname |-> "localhost", port |-> 0]

\* essbase.py lines 40-49
get_base_url(url) ==
    IF url # "" /\ StartsWith(url, "http")
    THEN LET parsed_url == UrlParse(url)
         IN  IF "port" \in DOMAIN parsed_url /\ parsed_url.port # 0
             THEN parsed_url.scheme \o "://" \o parsed_url.hostname \o ":"
                    \o ToString(parsed_url.port) \o "/essbase/rest/v1"
             ELSE parsed_url.scheme \o "://" \o parsed_url.hostname \o "/essbase/rest/v1"
    ELSE "Essbase URL"

\* line 61
RestUrl(p) == get_base_url(p["url"]) \o "/about"

\* The profiles a caller may pass.
Profiles == [url : Urls, user : {"admin", "guest"}, pwd : {"welcome1", ""}]

\* The Content-Type values a response may carry; the header may be missing.
ContentTypes == {"application/json", "application/json; charset=utf-8",
                 "Application/JSON", "application", "text/html", ""}
ConnectResponses ==
    { [headers |-> [ct \in {"Content-Type"} |-> c]] : c \in ContentTypes }
    \cup { [headers |-> <<>>] }

\* lines 70-75: what connect returns for a response
ConnectResult(p, resp) ==
    LET content_type == Get(resp.headers, "Content-Type", "")
    IN  IF StartsWith(content_type, "application/json")
        THEN PyDict([url |-> RestUrl(p), user |-> p["user"], pwd |-> p["pwd"]])
        ELSE PyStr("HTTP GET " \o RestUrl(p) \o " Error: Unexpected Content-Type: "
                   \o content_type)

\* ---------------------------------------------------------------- actions

Init ==
    /\ tool = "none"
    /\ pc = "idle"
    /\ entity_names = <<>>
    /\ idx = 0
    /\ entity_name = ""
    /\ requests = <<>>
    /\ response = NoResponse
    /\ item = NoItem
    /\ results = <<>>
    /\ mdx_arg = None
    /\ profile = None
    /\ outcome = Pending
    /\ exc = ""

\* essbase.py lines 176-183: a call of search_members reaches its for loop.
Call_search_members ==
    /\ pc = "idle"
    /\ \E names \in SeqsUpTo(NameVals, MaxNames) : entity_names' = names
    /\ tool' = "search_members"
    /\ pc' = "loop"
    /\ results' = <<>>
    /\ idx' = 0
    /\ UNCHANGED <<entity_name, requests, response, item, mdx_arg, profile, outcome, exc>>

\* lines 184-190: the loop takes the next name and issues its GET.  The name
\* `response` is rebound by the awaited call: no response is in hand until the
\* GET returns.
IssueLookup ==
    /\ pc = "loop"
    /\ idx < Len(entity_names)
    /\ idx' = idx + 1
    /\ entity_name' = entity_names[idx + 1]
    /\ requests' = Append(requests, entity_names[idx + 1])
    /\ response' = NoResponse
    /\ pc' = "await"
    /\ UNCHANGED <<tool, entity_names, item, results, mdx_arg, profile, outcome, exc>>

\* line 186: the awaited GET raises (httpx.TransportError); nothing catches it.
GetRaises ==
    /\ pc = "await"
    /\ pc' = "raised"
    /\ exc' = "TransportError"
    /\ outcome' = Raise("TransportError")
    /\ UNCHANGED <<tool, entity_names, idx, entity_name, requests, response, item,
                   results, mdx_arg, profile>>

\* lines 191-193: a non-200 response records None.
HandleFailure(resp) ==
    /\ IsFailure(resp)
    /\ results' = Append(results, [entity_name |-> entity_name, member |-> None])
    /\ pc' = "loop"
    /\ UNCHANGED <<item, outcome, exc>>

\* line 194: response.json() raises on a body that is no JSON.
HandleBadJson(resp) ==
    /\ ~IsFailure(resp)
    /\ "json" \notin DOMAIN resp
    /\ pc' = "raised"
    /\ exc' = "JSONDecodeError"
    /\ outcome' = Raise("JSONDecodeError")
    /\ UNCHANGED <<item, results>>

\* lines 194-198: no candidate records None.
HandleEmpty(resp) ==
    /\ ~IsFailure(resp)
    /\ "json" \in DOMAIN resp
    /\ NoCandidates(ItemsOf(resp.json))
    /\ results' = Append(results, [entity_name |-> entity_name, member |-> None])
    /\ pc' = "loop"
    /\ UNCHANGED <<item, outcome, exc>>

\* lines 200-215: a candidate is selected and converted; a selected candidate
\* without uniqueName raises KeyError out of the call.
HandleItems(resp) ==
    /\ ~IsFailure(resp)
    /\ "json" \in DOMAIN resp
    /\ ~NoCandidates(ItemsOf(resp.json))
    /\ LET it == SelectItem(ItemsOf(resp.json), entity_name)
       IN  /\ item' = it
           /\ IF "uniqueName" \in DOMAIN it
              THEN /\ results' = Append(results, [entity_name |-> entity_name,
                                                  member |-> MemberOf(it)])
                   /\ pc' = "loop"
                   /\ UNCHANGED <<outcome, exc>>
              ELSE /\ pc' = "raised"
                   /\ exc' = "KeyError"
                   /\ outcome' = Raise("KeyError")
                   /\ UNCHANGED results

\* lines 186-215: the GET returns a response and the loop body handles it.
HandleResponse ==
    /\ pc = "await"
    /\ \E resp \in Responses :
         /\ response' = resp
         /\ \/ HandleFailure(resp)
            \/ HandleBadJson(resp)
            \/ HandleEmpty(resp)
            \/ HandleItems(resp)
    /\ UNCHANGED <<tool, entity_names, idx, entity_name, requests, mdx_arg, profile>>

\* line 217: the loop is exhausted and results is returned.
ReturnResults ==
    /\ pc = "loop"
    /\ idx = Len(entity_names)
    /\ pc' = "done"
    /\ outcome' = Return(results)
    /\ UNCHANGED <<tool, entity_names, idx, entity_name, requests, response, item,
                   results, mdx_arg, profile, exc>>

\* A call of an MDX tool runs to its end in one step: it returns or raises.
Finish(o) ==
    /\ outcome' = o
    /\ pc' = IF o.kind = "raise" THEN "raised" ELSE "done"
    /\ exc' = IF o.kind = "raise" THEN o.exc ELSE ""

Call_set_MDX_expression ==
    /\ pc = "idle"
    /\ \E set_ \in Sets :
         /\ mdx_arg' = set_
         /\ Finish(set_MDX_expression(set_))
    /\ tool' = "set_MDX_expression"
    /\ UNCHANGED <<entity_names, idx, entity_name, requests, response, item, results,
                   profile>>

Call_member_range_MDX_expression ==
    /\ pc = "idle"
    /\ \E r \in MemberRanges :
         /\ mdx_arg' = r
         /\ Finish(member_range_MDX_expression(r))
    /\ tool' = "member_range_MDX_expression"
    /\ UNCHANGED <<entity_names, idx, entity_name, requests, response, item, results,
                   profile>>

\* lines 61-69: a call of connect builds the url and issues its GET.
Call_connect ==
    /\ pc = "idle"
    /\ \E p \in Profiles :
         /\ profile' = p
         /\ requests' = Append(requests, RestUrl(p))
    /\ tool' = "connect"
    /\ pc' = "get"
    /\ UNCHANGED <<entity_names, idx, entity_name, response, item, results, mdx_arg,
                   outcome, exc>>

\* line 66: the awaited GET raises; connect has no handler around it.
ConnectGetRaises ==
    /\ pc = "get"
    /\ pc' = "raised"
    /\ exc' = "TransportError"
    /\ outcome' = Raise("TransportError")
    /\ UNCHANGED <<tool, entity_names, idx, entity_name, requests, response, item,
                   results, mdx_arg, profile>>

\* lines 66-75: the GET returns and connect returns a profile or an error string.
ConnectResponse ==
    /\ pc = "get"
    /\ \E resp \in ConnectResponses :
         /\ response' = resp
         /\ outcome' = Return(ConnectResult(profile, resp))
    /\ pc' = "done"
    /\ UNCHANGED <<tool, entity_names, idx, entity_name, requests, item, results,
                   mdx_arg, profile, exc>>

Next ==
    \/ Call_connect
    \/ ConnectGetRaises
    \/ ConnectResponse
    \/ Call_search_members
    \/ IssueLookup
    \/ GetRaises
    \/ HandleResponse
    \/ ReturnResults
    \/ Call_set_MDX_expression
    \/ Call_member_range_MDX_expression

Spec == Init /\ [][Next]_vars

\* ------------------------------------------------------------------ claims

InSearch == tool = "search_members"

\* The call of search_members has ended, by returning or by an exception.
SearchEnded == InSearch /\ pc \in {"done", "raised"}

\* The loop body has recorded a result for the response in hand.
Handled == InSearch /\ pc \in {"loop", "done"} /\ response # NoResponse

\* The candidates of the response in hand (none when the body has no items).
CandidatesInHand ==
    IF "json" \in DOMAIN response /\ "items" \in DOMAIN response.json
    THEN response.json.items ELSE <<>>

\* The response in hand is a success with candidates: lines 200-207 have run
\* on it and bound `item`.
Selected ==
    /\ InSearch
    /\ response.status_code = 200
    /\ Len(CandidatesInHand) > 0

LastResult == results[Len(results)]

UniqueMatches(i) ==
    /\ "uniqueName" \in DOMAIN CandidatesInHand[i]
    /\ CandidatesInHand[i]["uniqueName"] = entity_name

NameMatches(i) ==
    /\ "name" \in DOMAIN CandidatesInHand[i]
    /\ CandidatesInHand[i]["name"] = entity_name

\* C1: whatever the lookups do, a call of search_members ends by returning a
\* list as long as entity_names whose i-th entry carries the i-th name.
C1_AlwaysReturnsOnePerName ==
    SearchEnded =>
        /\ pc = "done"
        /\ outcome.kind = "return"
        /\ Len(outcome.value) = Len(entity_names)
        /\ \A i \in 1..Len(entity_names) :
              outcome.value[i].entity_name = entity_names[i]

\* C2: a lookup that fails (the GET raises, or answers with a non-200) never
\* raises out of search_members and records None at its position.
C2_LookupFailureNeverRaises ==
    InSearch =>
        /\ exc # "TransportError"
        /\ (Handled /\ response.status_code # 200) => LastResult.member = None

\* C3: a selected candidate that lacks uniqueName fails that entity only; the
\* call goes on and still returns.
C3_MissingUniqueNameIsScoped ==
    (Selected /\ "uniqueName" \notin DOMAIN item) => pc # "raised"

C5_LoneCandidateSelected ==
    (Selected /\ Len(CandidatesInHand) = 1) =>
        /\ item = CandidatesInHand[1]
        /\ "uniqueName" \in DOMAIN item =>
              /\ pc # "raised"
              /\ LastResult.entity_name = entity_name
              /\ LastResult.member.unique_name = item["uniqueName"]

\* C5 witness: a lone candidate matching the query in neither field resolved.
C5_Witness ==
    /\ Selected /\ pc = "loop" /\ Len(CandidatesInHand) = 1
    /\ entity_name = "jan"
    /\ item = [name |-> "Jan", uniqueName |-> "Jan"]
    /\ LastResult.member.unique_name = "Jan"

\* C6: among two or more candidates, the first whose uniqueName equals the
\* query exactly is selected, wherever it stands and whatever precedes it.
C6_FirstUniqueNameMatch ==
    (Selected /\ Len(CandidatesInHand) >= 2
       /\ \E i \in 1..Len(CandidatesInHand) : UniqueMatches(i)) =>
        \E i \in 1..Len(CandidatesInHand) :
            /\ UniqueMatches(i)
            /\ \A j \in 1..(i - 1) : ~UniqueMatches(j)
            /\ item = CandidatesInHand[i]
            /\ pc # "raised"
            /\ LastResult.member.unique_name = entity_name

\* C6 witness: the second candidate matches by uniqueName, the first by name.
C6_Witness ==
    /\ Selected /\ Len(CandidatesInHand) = 2
    /\ NameMatches(1) /\ ~UniqueMatches(1)
    /\ UniqueMatches(2) /\ ~NameMatches(2)
    /\ item = CandidatesInHand[2]
    /\ item # CandidatesInHand[1]

\* C7: among two or more candidates none of which matches by uniqueName, the
\* first whose name equals the query is selected, and the first candidate when
\* none matches by name either.
C7_NameMatchThenFirst ==
    (Selected /\ Len(CandidatesInHand) >= 2
       /\ \A i \in 1..Len(CandidatesInHand) : ~UniqueMatches(i)) =>
        IF \E i \in 1..Len(CandidatesInHand) : NameMatches(i)
        THEN \E i \in 1..Len(CandidatesInHand) :
                /\ NameMatches(i)
                /\ \A j \in 1..(i - 1) : ~NameMatches(j)
                /\ item = CandidatesInHand[i]
        ELSE item = CandidatesInHand[1]

\* C7 witness: no match at all, and the first of two distinct candidates taken.
C7_Witness ==
    /\ Selected /\ pc = "loop" /\ Len(CandidatesInHand) = 2
    /\ \A i \in 1..2 : ~UniqueMatches(i) /\ ~NameMatches(i)
    /\ CandidatesInHand[1] # CandidatesInHand[2]
    /\ item = CandidatesInHand[1]
    /\ LastResult.member.unique_name = CandidatesInHand[1]["uniqueName"]

InSetCall == tool = "set_MDX_expression"
InRangeCall == tool = "member_range_MDX_expression"

\* C8: set_MDX_expression on a list of names returns them joined by ", "
\* inside braces.
C8_ListRendersInBraces ==
    (InSetCall /\ mdx_arg["members"].type = "list") =>
        outcome = Return("{" \o Join(mdx_arg["members"].val, ", ") \o "}")

\* How the claim renders an endpoint: a Member by its unique_name, a bare string
\* by itself.
IsMember(ep) == ep.type = "dict" /\ "unique_name" \in DOMAIN ep.val
Rendered(ep) == IF ep.type = "str" THEN ep.val ELSE ep.val["unique_name"]
StartOfArg == mdx_arg.val["start_member_name"]
EndOfArg == mdx_arg.val["end_member_name"]

C10_FunctionRendersWithEmptyArgs ==
    (InSetCall /\ mdx_arg["members"].type = "SetFunction") =>
        outcome = Return(mdx_arg["members"].function_name \o "()")

\* The members value is one of the three variants of a Set: a list of names, a
\* range of two Members, or a function reference.
IsValidVariant(m) ==
    \/ m.type = "list"
    \/ m.type = "SetFunction"
    \/ /\ m.type = "dict"
       /\ IsMember(m.val["start_member_name"])
       /\ IsMember(m.val["end_member_name"])

\* C11: set_MDX_expression fails with the invalid-set error (ValueError) when
\* members is none of the three variants, and returns a string for every set
\* with one valid variant.
C11_InvalidSetErrorIffNoVariant ==
    InSetCall =>
        /\ mdx_arg["members"] = None => outcome = Raise("ValueError")
        /\ IsValidVariant(mdx_arg["members"]) => outcome.kind = "return"
        /\ outcome = Raise("ValueError") => ~IsValidVariant(mdx_arg["members"])

InConnect == tool = "connect"

\* The Content-Type of the response connect received, "" when it has none.
ContentTypeInHand ==
    IF "Content-Type" \in DOMAIN response.headers
    THEN response.headers["Content-Type"] ELSE ""

\* sub occurs in s
Contains(s, sub) ==
    \E i \in 1..(Len(s) - Len(sub) + 1) : SubSeq(s, i, i + Len(sub) - 1) = sub

\* C12: connect returns a profile with the caller's user and pwd and a url
\* containing "/about" exactly when the Content-Type starts with
\* "application/json", an error string containing "Unexpected Content-Type"
\* otherwise, and a transport exception of the GET leaves the call.
C12_ConnectByContentType ==
    InConnect =>
        /\ exc = "TransportError" => (pc = "raised" /\ outcome = Raise("TransportError"))
        /\ pc = "raised" => exc = "TransportError"
        /\ pc = "done" =>
              /\ outcome.kind = "return"
              /\ IF /\ Len(ContentTypeInHand) >= 16
                    /\ SubSeq(ContentTypeInHand, 1, 16) = "application/json"
                 THEN /\ outcome.value.type = "dict"
                      /\ DOMAIN outcome.value.val = {"url", "user", "pwd"}
                      /\ outcome.value.val["user"] = profile["user"]
                      /\ outcome.value.val["pwd"] = profile["pwd"]
                      /\ Contains(outcome.value.val["url"], "/about")
                 ELSE /\ outcome.value.type = "str"
                      /\ Contains(outcome.value.val, "Unexpected Content-Type")

\* C12 witness: a Content-Type with a charset suffix yields the profile.
C12_Witness ==
    /\ InConnect /\ pc = "done"
    /\ ContentTypeInHand = "application/json; charset=utf-8"
    /\ outcome.value = PyDict([url |-> "https://essbase.example.com:9000/essbase/rest/v1/about",
                               user |-> "admin", pwd |-> "welcome1"])

\* C13: every member recorded is built from the one candidate selected out of
\* the response to the lookup for that same name: unique_name verbatim, name
\* the candidate's name or "", dimension its dimensionName or else the name.
C13_MemberFromSelectedCandidate ==
    [][ (Len(results') # Len(results) /\ results'[Len(results')].member # None) =>
          LET r == results'[Len(results')]
              m == results'[Len(results')].member
          IN  /\ response'.status_code = 200
              /\ "json" \in DOMAIN response'
              /\ "items" \in DOMAIN response'.json
              /\ requests'[Len(requests')] = r.entity_name
              /\ \E i \in 1..Len(response'.json.items) : item' = response'.json.items[i]
              /\ "uniqueName" \in DOMAIN item'
              /\ m.unique_name = item'["uniqueName"]
              /\ m.name = (IF "name" \in DOMAIN item' THEN item'["name"] ELSE "")
              /\ m.dimension = (IF "dimensionName" \in DOMAIN item'
                                THEN item'["dimensionName"] ELSE m.name) ]_vars

\* C13 witness: a candidate without dimensionName gave a member whose dimension
\* is its name.
C13_Witness ==
    /\ InSearch /\ pc = "done" /\ Len(results) >= 1
    /\ item = [name |-> "Jan", uniqueName |-> "jan"]
    /\ LastResult.member = [dimension |-> "Jan", name |-> "Jan", unique_name |-> "jan"]

\* C14, the part that holds on every run: the lookups issued are the names of
\* a prefix of entity_names in order, each issued once, and a lookup is issued
\* only when every earlier one has its result recorded.
C14_InOrderNoRetry ==
    InSearch =>
        /\ Len(requests) <= Len(entity_names)
        /\ requests = SubSeq(entity_names, 1, Len(requests))
        /\ Len(requests) = idx
        /\ pc = "await" => Len(results) = Len(requests) - 1
        /\ pc \in {"loop", "done"} => Len(results) = Len(requests)

\* C14: one call of search_members over n names issues exactly n lookups, one
\* per position and in input order, the next only after the previous result is
\* recorded, none repeated.
C14_ExactlyOneLookupPerName ==
    /\ C14_InOrderNoRetry
    /\ SearchEnded => Len(requests) = Len(entity_names)

====
